---- MODULE Spec2Model ----
(***************************************************************************)
(* Model of the multi-agent decision pipeline of fenyr-trading-agent:      *)
(* CoordinatorAgent.run_team_analysis and the stages it drives             *)
(* (MarketAnalystAgent, SentimentAgent, RiskManagerAgent, ExecutorAgent),  *)
(* with the exchange, the language model and the compliance log as         *)
(* nondeterministic collaborators.                                         *)
(*                                                                         *)
(* Numbers.  Confidences are in hundredths (0.65 is 65), stage weights in  *)
(* hundredths (0.35 is 35), so scores are in ten-thousandths (0.65 is      *)
(* 6500).  Sizes are in units of 0.0001 BTC (max_position_size 0.0002 is   *)
(* 2).  The arithmetic is exact decimal arithmetic; the binary rounding of *)
(* Python floats is not modelled.                                          *)
(***************************************************************************)
EXTENDS Integers, Sequences, FiniteSets, TLC

(* ------------------------------ bounds -------------------------------- *)

\* recommended_size values a risk response carries: -MaxSize..MaxSize
MaxSize == 3
\* order ids the exchange hands out: the first MaxOrderId entries of IdDigits
MaxOrderId == 2
\* cycles a repeated-cycle runner is followed for
MaxCycles == 3
\* candles a fetched series holds at most
MaxCandles == 20
\* closes an EMA recurrence is followed over (its exact value is a fraction
\* whose denominator grows with every close)
MaxEmaLen == 4
\* closes calculate_macd is followed over
MaxMacdLen == 10
\* analyze_and_trade calls of a single agent, rounds of tool calls in one
\* call, and tool calls in one round
MaxCalls == 2
MaxRounds == 3
MaxToolCalls == 2

\* confidence values (hundredths) a response carries; outside [0,100] included
ConfGrid == {-10, 20, 75, 100, 150}

(* --------------------------- program constants ------------------------ *)

\* CoordinatorAgent.__init__ / RiskManagerAgent.__init__: max_position_size
MaxPositionSize == 2

\* calculate_consensus: weights
\* weights with the sentiment and risk shares shifted
weights_Shifted == [MarketAnalyst |-> 35, SentimentAgent |-> 35, RiskManager |-> 30]

weights == [MarketAnalyst |-> 35, SentimentAgent |-> 25, RiskManager |-> 40]

\* calculate_consensus: thresholds of the action
\* ExecuteThreshold at the most the market and sentiment stages can score
ExecuteThreshold_Low == (weights.MarketAnalyst + weights.SentimentAgent) * 100

ExecuteThreshold == 6500
AlertThreshold == 4500

(* ------------------------- language-model replies --------------------- *)

\* str.upper() on the signal names the replies of this model carry
Upper == [BUY |-> "BUY", buy |-> "BUY", Sell |-> "SELL", NEUTRAL |-> "NEUTRAL",
          hold |-> "HOLD", Bullish |-> "BULLISH", BEARISH |-> "BEARISH",
          approve |-> "APPROVE", APPROVE |-> "APPROVE", REDUCE |-> "REDUCE", Reject |-> "REJECT",
          STRONG_BUY |-> "STRONG_BUY"]

RawNames == DOMAIN Upper

\* a JSON value under a key: absent, a string, a number, or JSON null
Absent == [t |-> "absent", s |-> "", n |-> 0]
Null == [t |-> "null", s |-> "", n |-> 0]
Str(x) == [t |-> "str", s |-> x, n |-> 0]
Num(x) == [t |-> "num", s |-> "", n |-> x]

SignalValues == {Absent, Null} \cup {Str(x) : x \in RawNames}
ConfValues == {Absent, Str("high")} \cup {Num(c) : c \in ConfGrid}
SizeValues == {Absent, Str("small")} \cup {Num(z) : z \in (0 - MaxSize)..MaxSize}
ReasoningValues == {Absent, Str("analysis")}

\* A reply of call_gpt: raw is the text, start is raw.find("{"), last is
\* raw.rfind("}"), json says whether json.loads accepts raw[start:last+1], and
\* the other fields are the values of the object it then returns.
Reply(raw, start, last, json, signal, confidence, size, reasoning) ==
    [raw |-> raw, start |-> start, last |-> last, json |-> json,
     signal |-> signal, confidence |-> confidence, recommended_size |-> size,
     reasoning |-> reasoning]

\* replies that hold no JSON object
EmptyReply == Reply("", -1, -1, "invalid", Absent, Absent, Absent, Absent)
TextReply == Reply("no braces", -1, -1, "invalid", Absent, Absent, Absent, Absent)
OpenOnlyReply == Reply("{", 0, -1, "invalid", Absent, Absent, Absent, Absent)
CloseOpenReply == Reply("} {", 2, 0, "invalid", Absent, Absent, Absent, Absent)
MalformedReply == Reply("{ {a} }", 0, 6, "invalid", Absent, Absent, Absent, Absent)

UnparseableReplies ==
    {EmptyReply, TextReply, OpenOnlyReply, CloseOpenReply, MalformedReply}

\* a reply whose braces enclose a JSON object (nested objects included)
ObjectReply(signal, confidence, size, reasoning) ==
    Reply("{json}", 0, 5, "valid", signal, confidence, size, reasoning)

\* the replies the stages of a pipeline run receive
StageReplies == {TextReply, MalformedReply} \cup
    {ObjectReply(s, c, Absent, Str("analysis")) :
        s \in SignalValues, c \in ConfValues}

RiskReplies == {TextReply, MalformedReply} \cup
    {ObjectReply(s, c, z, Str("analysis")) :
        s \in SignalValues, c \in ConfValues, z \in SizeValues}

(* ------------------------------ AgentDecision ------------------------- *)

\* AgentDecision: agent_name, signal (Signal.value), confidence, reasoning,
\* data["input"], data["output"]
Decision(name, signal, confidence, reasoning, input, output) ==
    [agent_name |-> name, signal |-> signal, confidence |-> confidence,
     reasoning |-> reasoning, input |-> input, output |-> output]

\* execution_decision = None
NoDecision == [agent_name |-> "None", signal |-> "none", confidence |-> 0,
               reasoning |-> "", input |-> [none |-> TRUE],
               output |-> [none |-> TRUE]]

\* outcome of a call: a returned value, the exception it raised, or no return
\* at all (a request the exchange never answers: requests is called without
\* a timeout)
Returned(d) == [err |-> "none", decision |-> d]
Raised(e) == [err |-> e, decision |-> NoDecision]
Hung == [err |-> "hang", decision |-> NoDecision]

\* dict.get(key, default) on a parsed reply
Get(v, default) == IF v.t = "absent" THEN default ELSE v

\* dict.get(key, default) on a signal_map
MapGet(map, key, default) == IF key \in DOMAIN map THEN map[key] ELSE default

(* ------------------------------ the stages ---------------------------- *)

\* the "if start >= 0 and end > start" test, with end = rfind("}") + 1
Braced(reply) == reply.start >= 0 /\ reply.last + 1 > reply.start

\* the try/except around find/rfind/json.loads: the parsed object, or the
\* stage's fallback dict when there are no braces or json.loads raises
ParseResponse(reply, fallback) ==
    IF Braced(reply) /\ reply.json = "valid"
    THEN [signal |-> reply.signal, confidence |-> reply.confidence,
          recommended_size |-> reply.recommended_size,
          reasoning |-> reply.reasoning]
    ELSE fallback

MarketFallback(response) ==
    [signal |-> Str("NEUTRAL"), confidence |-> Num(50),
     recommended_size |-> Absent, reasoning |-> Str(response)]
SentimentFallback(response) ==
    [signal |-> Str("NEUTRAL"), confidence |-> Num(50),
     recommended_size |-> Absent, reasoning |-> Str(response)]
RiskFallback(response) ==
    [signal |-> Str("APPROVE"), confidence |-> Num(70),
     recommended_size |-> Num(MaxPositionSize), reasoning |-> Str(response)]

\* market_signal_map that also knows a sentiment name
market_signal_map_Foreign ==
    [BUY |-> "buy", SELL |-> "sell", NEUTRAL |-> "neutral", HOLD |-> "hold",
     BULLISH |-> "bullish"]

market_signal_map == [BUY |-> "buy", SELL |-> "sell", NEUTRAL |-> "neutral",
                      HOLD |-> "hold"]
sentiment_signal_map == [BULLISH |-> "bullish", BEARISH |-> "bearish",
                         NEUTRAL |-> "neutral"]
risk_signal_map == [APPROVE |-> "approve", REDUCE |-> "reduce",
                    REJECT |-> "reject"]

\* MarketAnalystAgent.analyze, from the reply of call_gpt on
MarketAnalyze(reply) ==
    LET result == ParseResponse(reply, MarketFallback(reply.raw))
        sig == Get(result.signal, Str("NEUTRAL"))
        conf == Get(result.confidence, Num(50))
    IN  IF sig.t # "str" THEN Raised("AttributeError")
        ELSE IF conf.t # "num" THEN Raised("ValueError")
        ELSE Returned(Decision("MarketAnalyst",
                               MapGet(market_signal_map, Upper[sig.s], "neutral"),
                               conf.n,
                               Get(result.reasoning, Str("")).s,
                               [symbol |-> "cmt_btcusdt"],
                               [indicators |-> TRUE]))

\* SentimentAgent.analyze, from the reply of call_gpt on
SentimentAnalyze(reply) ==
    LET result == ParseResponse(reply, SentimentFallback(reply.raw))
        sig == Get(result.signal, Str("NEUTRAL"))
        conf == Get(result.confidence, Num(50))
    IN  IF sig.t # "str" THEN Raised("AttributeError")
        ELSE IF conf.t # "num" THEN Raised("ValueError")
        ELSE Returned(Decision("SentimentAgent",
                               MapGet(sentiment_signal_map, Upper[sig.s], "neutral"),
                               conf.n,
                               Get(result.reasoning, Str("")).s,
                               [symbol |-> "cmt_btcusdt"],
                               [sentiment |-> TRUE]))

Min(a, b) == IF a < b THEN a ELSE b

\* the "Ensure recommended size is within limits" step of RiskManagerAgent.analyze
RecommendedSize(requested, max_position_size) == Min(requested, max_position_size)

\* rm_context with a proposal that does not come from the market decision
RiskContext_Default(ma_decision) ==
    [proposed_signal |-> "buy", proposed_confidence |-> 50]

\* rm_context of run_team_analysis: the market decision as the proposal
RiskContext(ma_decision) ==
    [proposed_signal |-> ma_decision.signal,
     proposed_confidence |-> ma_decision.confidence]

\* RiskManagerAgent.analyze, from the reply of call_gpt on
RiskAnalyze(context, reply) ==
    LET result == ParseResponse(reply, RiskFallback(reply.raw))
        sig == Get(result.signal, Str("APPROVE"))
        size == Get(result.recommended_size, Num(MaxPositionSize))
        conf == Get(result.confidence, Num(70))
    IN  IF sig.t # "str" THEN Raised("AttributeError")
        ELSE IF size.t # "num" THEN Raised("ValueError")
        ELSE IF conf.t # "num" THEN Raised("ValueError")
        ELSE Returned(Decision("RiskManager",
                               MapGet(risk_signal_map, Upper[sig.s], "approve"),
                               conf.n,
                               Get(result.reasoning, Str("")).s,
                               context,
                               [recommended_size |->
                                    RecommendedSize(size.n, MaxPositionSize)]))

(* ------------------------------ consensus ----------------------------- *)

\* decisions.get(name) on the insertion-ordered dict of decisions
RECURSIVE DictGet(_, _)
DictGet(ds, name) ==
    IF ds = <<>> THEN NoDecision
    ELSE IF Head(ds).agent_name = name THEN Head(ds)
    ELSE DictGet(Tail(ds), name)

\* BuySignals without the risk stage's Approve
BuySignals_NoApprove == {"buy", "bullish"}

BuySignals == {"buy", "bullish", "approve"}

\* SellSignals without the market stage's Sell
SellSignals_BearishOnly == {"bearish"}

SellSignals == {"sell", "bearish"}

\* Accumulate with a stage voting hold also adding its score
Accumulate_HoldScores(acc, decision) ==
    LET weight == weights[decision.agent_name]
        score == decision.confidence * weight
    IN  IF decision.signal \in BuySignals
        THEN [total_score |-> acc.total_score + score,
              votes |-> [acc.votes EXCEPT !.buy = @ + weight]]
        ELSE IF decision.signal \in SellSignals
        THEN [total_score |-> acc.total_score + score,
              votes |-> [acc.votes EXCEPT !.sell = @ + weight]]
        ELSE [total_score |-> acc.total_score + score,
              votes |-> [acc.votes EXCEPT !.hold = @ + weight]]

\* one pass of the loop body of calculate_consensus over a weighted decision
Accumulate(acc, decision) ==
    LET weight == weights[decision.agent_name]
        score == decision.confidence * weight
    IN  IF decision.signal \in BuySignals
        THEN [total_score |-> acc.total_score + score,
              votes |-> [acc.votes EXCEPT !.buy = @ + weight]]
        ELSE IF decision.signal \in SellSignals
        THEN [total_score |-> acc.total_score + score,
              votes |-> [acc.votes EXCEPT !.sell = @ + weight]]
        ELSE [total_score |-> acc.total_score,
              votes |-> [acc.votes EXCEPT !.hold = @ + weight]]

\* the for loop of calculate_consensus, in dict order
RECURSIVE Tally(_, _)
Tally(ds, acc) ==
    IF ds = <<>> THEN acc
    ELSE IF Head(ds).agent_name \notin DOMAIN weights THEN Tally(Tail(ds), acc)
    ELSE Tally(Tail(ds), Accumulate(acc, Head(ds)))

\* ActionOf with the Execute boundary exclusive
ActionOf_Strict(total_score) ==
    IF total_score > ExecuteThreshold THEN "execute"
    ELSE IF total_score >= AlertThreshold THEN "alert"
    ELSE "hold"

\* "Determine action" of calculate_consensus
ActionOf(total_score) ==
    IF total_score >= ExecuteThreshold THEN "execute"
    ELSE IF total_score >= AlertThreshold THEN "alert"
    ELSE "hold"

\* DirectionOf with a tie resolved to buy
DirectionOf_TieBuys(votes) ==
    IF votes.buy >= votes.sell THEN "buy"
    ELSE IF votes.sell > votes.buy THEN "sell"
    ELSE "none"

\* "Determine trade direction" of calculate_consensus
DirectionOf(votes) ==
    IF votes.buy > votes.sell THEN "buy"
    ELSE IF votes.sell > votes.buy THEN "sell"
    ELSE "none"

\* CoordinatorAgent.calculate_consensus: the dict it returns
calculate_consensus(ds) ==
    LET risk_decision == DictGet(ds, "RiskManager")
    IN  IF risk_decision.agent_name # "None" /\ risk_decision.signal = "reject"
        THEN [action |-> "hold", confidence |-> 0,
              reason |-> "Risk Manager veto - trade rejected"]
        ELSE LET acc == Tally(ds, [total_score |-> 0,
                                   votes |-> [buy |-> 0, sell |-> 0, hold |-> 0]])
             IN  [action |-> ActionOf(acc.total_score),
                  confidence |-> acc.total_score,
                  direction |-> DirectionOf(acc.votes),
                  votes |-> acc.votes]

\* consensus before calculate_consensus has run
NoConsensus == [action |-> "unset"]

(* ------------------------------ executor ------------------------------ *)

\* order ids: None when the reply of place_order has no "order_id", the
\* empty string, or a decimal string; the exchange numbers orders from 1 up
IdDigits == <<"596471", "596472", "596473", "596474">>
NoOrderId == "None"
OrderIds == {NoOrderId, ""} \cup {IdDigits[i] : i \in 1..MaxOrderId}

\* int(order_id) on a decimal string
IntOf(order_id) ==
    LET i == CHOOSE k \in 1..Len(IdDigits) : IdDigits[k] = order_id
    IN  596470 + i

\* truth value of an order id in "if order_id"
Truthy(order_id) == order_id \notin {NoOrderId, ""}

\* side_map.get(action.lower(), 1) of execute_trade
SideOf(action) == IF action = "sell" THEN 3 ELSE 1

\* ExecutorAgent.execute_trade: the result dict, given what place_order returned
execute_trade(action, size, order_id) ==
    [success |-> order_id # NoOrderId, order_id |-> order_id, action |-> action,
     size |-> size]

\* the branch of ExecutorAgent.analyze that calls execute_trade
CallsExecuteTrade(context) == context.action \in {"execute", "buy", "sell"}

\* ExecutorAgent.analyze, given what place_order returns if it is called
ExecutorAnalyze(context, order_id) ==
    IF CallsExecuteTrade(context)
    THEN LET trade_action == context.trade_direction
             result == execute_trade(trade_action, context.size, order_id)
         IN  Decision("Executor",
                      IF trade_action = "buy" THEN "buy" ELSE "sell",
                      IF result.success THEN 100 ELSE 0,
                      "Executed order", context, result)
    ELSE Decision("Executor", "hold", 100, "No execution required", context,
                  [action |-> "hold", reason |-> "No trade signal"])

(* --------------------------- run_team_analysis ------------------------ *)

\* ExecutionGate that also opens on Alert
ExecutionGate_AlertToo(c) ==
    c.action \in {"execute", "alert"} /\ c.direction \in {"buy", "sell"}

\* the condition of "5. Execute if needed"
ExecutionGate(c) == c.action = "execute" /\ c.direction \in {"buy", "sell"}

\* BlockedExecution that records the executor's no-execution decision
BlockedExecution_Recorded ==
    ExecutorAnalyze([action |-> "hold", size |-> 0, trade_direction |-> "none"],
                    NoOrderId)

\* execution_decision when the gate is closed
BlockedExecution == NoDecision

\* OrderIdTag that never tags
OrderIdTag_Never(order_id) == 0

\* order_id passed to upload_ai_log for the executor's decision; 0 is None
OrderIdTag(order_id) == IF Truthy(order_id) THEN IntOf(order_id) ELSE 0

\* BaseAgent.upload_ai_log / WeexClient.upload_ai_log: the request sent; the
\* body has an orderId only when order_id is truthy (0 here: no orderId)
UploadEvent(decision, order_id) ==
    [type |-> "upload_ai_log", agent |-> decision.agent_name,
     orderId |-> order_id, size |-> 0, side |-> 0]

\* WeexClient.place_order as called by execute_trade
OrderEvent(size, side) ==
    [type |-> "place_order", agent |-> "Executor", orderId |-> 0,
     size |-> size, side |-> side]

\* agent_decisions of the TeamDecision returned
AgentDecisions(ds, exec) == ds \o (IF exec # NoDecision THEN <<exec>> ELSE <<>>)

TeamDecision(c, size, ds, exec) ==
    [action |-> c.action, trade_direction |-> c.direction, size |-> size,
     confidence |-> c.confidence, agent_decisions |-> AgentDecisions(ds, exec)]

NoTeamDecision == [action |-> "unset"]

\* outcomes of a collaborator call that fetches data, and of an upload: the
\* call returns, raises, or (session.get/post have no timeout) never returns;
\* an upload that returns carries the exchange's code, success or error
IoOutcomes == {"ok", "fail", "hang"}
UploadOutcomes == {"00000", "error", "raise", "hang"}

\* the outcome of a stage's analyze: its data fetch, then the reply's extraction
Fetched(io, result) ==
    IF io = "fail" THEN Raised("IOError")
    ELSE IF io = "hang" THEN Hung
    ELSE result

\* pc: position in run_team_analysis ("done": returned, "raised": left by an
\*     exception, "hung": inside a call that never returns); err: the
\*     exception that left it
\* decisions: the dict of stage decisions, in insertion order
\* consensus: the dict calculate_consensus returned
\* execution_decision: the executor's decision, NoDecision while None
\* events: the place_order and upload_ai_log requests sent, in order
\* team: the TeamDecision returned
\* response: the reply handed to a single stage whose extraction is examined
\* loop: the state of a repeated-cycle runner
\* ta: a price series and what an indicator function computed from it
\* fenyr: the state of a FenyrAgent (the single agent of ai_trader.py)
VARIABLES pc, decisions, consensus, execution_decision, events, err, team,
          response, loop, ta, fenyr

vars == <<pc, decisions, consensus, execution_decision, events, err, team,
          response, loop, ta, fenyr>>

\* no runner: a single run_team_analysis call
NoLoop == [mode |-> "none", cycles |-> 0, cycle |-> 0, at |-> "none",
           log |-> <<>>]

\* no indicator computation, and no single agent
NoTa == [fn |-> "none", candles |-> <<>>, out |-> [kind |-> "none"]]
NoFenyr == [at |-> "none"]

\* the variables of the indicator functions and of the single agent are idle
Idle == ta = NoTa /\ fenyr = NoFenyr

Init ==
    /\ pc = "market"
    /\ decisions = <<>>
    /\ consensus = NoConsensus
    /\ execution_decision = NoDecision
    /\ events = <<>>
    /\ err = "none"
    /\ team = NoTeamDecision
    /\ response = EmptyReply
    /\ loop = NoLoop
    /\ Idle

Raise(e) == pc' = "raised" /\ err' = e

\* one analysis stage of run_team_analysis: analyze, decisions[name] = ...,
\* upload_ai_log; an exception of any of them leaves the function
Hang == pc' = "hung" /\ UNCHANGED err

Stage(outcome, up, next) ==
    IF outcome.err = "hang"
    THEN Hang /\ UNCHANGED <<decisions, events>>
    ELSE IF outcome.err # "none"
    THEN Raise(outcome.err) /\ UNCHANGED <<decisions, events>>
    ELSE /\ decisions' = Append(decisions, outcome.decision)
         /\ IF up = "raise"
            THEN Raise("UploadError") /\ UNCHANGED events
            ELSE IF up = "hang"
            THEN Hang /\ UNCHANGED events
            ELSE /\ events' = Append(events, UploadEvent(outcome.decision, 0))
                 /\ pc' = next
                 /\ UNCHANGED err

\* 1. Market Analyst, GPT answering with one of replies
MarketStageOn(replies) ==
    /\ pc = "market"
    /\ \E io \in IoOutcomes, reply \in replies, up \in UploadOutcomes :
          Stage(Fetched(io, MarketAnalyze(reply)), up, "sentiment")
    /\ UNCHANGED <<consensus, execution_decision, team, response, loop, ta, fenyr>>

MarketStage == MarketStageOn(StageReplies)

\* 2. Sentiment Agent, GPT answering with one of replies
SentimentStageOn(replies) ==
    /\ pc = "sentiment"
    /\ \E io \in IoOutcomes, reply \in replies, up \in UploadOutcomes :
          Stage(Fetched(io, SentimentAnalyze(reply)), up, "risk")
    /\ UNCHANGED <<consensus, execution_decision, team, response, loop, ta, fenyr>>

SentimentStage == SentimentStageOn(StageReplies)

\* 3. Risk Manager, GPT answering with one of replies
RiskStageOn(replies) ==
    /\ pc = "risk"
    /\ \E io \in IoOutcomes, reply \in replies, up \in UploadOutcomes :
          Stage(Fetched(io, RiskAnalyze(RiskContext(DictGet(decisions,
                    "MarketAnalyst")), reply)), up, "consensus")
    /\ UNCHANGED <<consensus, execution_decision, team, response, loop, ta, fenyr>>

RiskStage == RiskStageOn(RiskReplies)

\* signal of the coordinator's own decision
CoordSignal(direction) ==
    IF direction = "buy" THEN "buy" ELSE IF direction = "sell" THEN "sell" ELSE "hold"

\* 4. Coordinator consensus: calculate_consensus, the coordinator's decision
\* (which reads consensus['direction'] and consensus['votes']) and its upload
CoordinatorStage ==
    /\ pc = "consensus"
    /\ LET c == calculate_consensus(decisions) IN
          /\ consensus' = c
          /\ IF "direction" \notin DOMAIN c
             THEN Raise("KeyError") /\ UNCHANGED events
             ELSE \E up \in UploadOutcomes :
                    IF up = "raise"
                    THEN Raise("UploadError") /\ UNCHANGED events
                    ELSE IF up = "hang"
                    THEN Hang /\ UNCHANGED events
                    ELSE /\ events' = Append(events,
                               UploadEvent(Decision("Coordinator",
                                   CoordSignal(c.direction), c.confidence,
                                   "Consensus", [agent_decisions |-> TRUE], c), 0))
                         /\ pc' = "gate"
                         /\ UNCHANGED err
    /\ UNCHANGED <<decisions, execution_decision, team, response, loop, ta, fenyr>>

\* recommended_size read from the risk decision, as run_team_analysis does
recommended_size == DictGet(decisions, "RiskManager").output.recommended_size

\* a place_order that is sent again after it was placed
PlaceOrder_Retried(sent, size, side) ==
    Append(Append(sent, OrderEvent(size, side)), OrderEvent(size, side))

\* the one self.weex.place_order call of ExecutorAgent.execute_trade, added to
\* the calls the exchange has seen
PlaceOrder(sent, size, side) == Append(sent, OrderEvent(size, side))

\* 5. the gate is open: executor.analyze (get_ticker, place_order), the upload
\* of its decision, and the TeamDecision returned
ExecutorStage ==
    /\ pc = "gate"
    /\ ExecutionGate(consensus)
    /\ LET context == [action |-> "execute", size |-> recommended_size,
                       trade_direction |-> consensus.direction]
       IN \E io \in IoOutcomes, order_id \in OrderIds, up \in UploadOutcomes :
            IF io = "fail"
            THEN Raise("IOError") /\ UNCHANGED <<execution_decision, events, team>>
            ELSE IF io = "hang"
            THEN Hang /\ UNCHANGED <<execution_decision, events, team>>
            ELSE LET exec == ExecutorAnalyze(context, order_id)
                     placed == PlaceOrder(events, context.size,
                                          SideOf(context.trade_direction))
                 IN /\ execution_decision' = exec
                    /\ IF up = "raise"
                       THEN /\ Raise("UploadError")
                            /\ events' = placed
                            /\ UNCHANGED team
                       ELSE IF up = "hang"
                       THEN /\ Hang
                            /\ events' = placed
                            /\ UNCHANGED team
                       ELSE /\ events' = Append(placed,
                                   UploadEvent(exec, OrderIdTag(exec.output.order_id)))
                            /\ team' = TeamDecision(consensus, recommended_size,
                                                    decisions, exec)
                            /\ pc' = "done"
                            /\ UNCHANGED err
    /\ UNCHANGED <<decisions, consensus, response, loop, ta, fenyr>>

\* 5. the gate is closed: no execution, and the TeamDecision returned
NoExecution ==
    /\ pc = "gate"
    /\ ~ExecutionGate(consensus)
    /\ execution_decision' = BlockedExecution
    /\ team' = TeamDecision(consensus, recommended_size, decisions, BlockedExecution)
    /\ pc' = "done"
    /\ UNCHANGED <<decisions, consensus, events, err, response, loop, ta, fenyr>>

Next ==
    \/ MarketStage
    \/ SentimentStage
    \/ RiskStage
    \/ CoordinatorStage
    \/ ExecutorStage
    \/ NoExecution

Spec == Init /\ [][Next]_vars

(* ------------------- one stage's extraction, on its own ---------------- *)

\* every reply shape a stage's extraction can be handed
ExtractReplies(stage) ==
    UnparseableReplies \cup
    {ObjectReply(s, c, z, r) :
        s \in SignalValues, c \in ConfValues,
        z \in (IF stage = "risk" THEN SizeValues ELSE {Absent}),
        r \in ReasoningValues}

\* the decisions already made when a stage runs
DecisionsBefore(stage) ==
    IF stage = "market" THEN <<>>
    ELSE IF stage = "sentiment" THEN <<MarketAnalyze(TextReply).decision>>
    ELSE <<MarketAnalyze(TextReply).decision, SentimentAnalyze(TextReply).decision>>

\* a stage is about to extract the decision from a reply of call_gpt
ExtractInit ==
    /\ pc \in {"market", "sentiment", "risk"}
    /\ response \in ExtractReplies(pc)
    /\ decisions = DecisionsBefore(pc)
    /\ consensus = NoConsensus
    /\ execution_decision = NoDecision
    /\ events = <<>>
    /\ err = "none"
    /\ team = NoTeamDecision
    /\ loop = NoLoop
    /\ Idle

\* the part of analyze after call_gpt: the decision is returned and stored,
\* or the exception leaves the function
Extracted(outcome) ==
    /\ IF outcome.err # "none"
       THEN Raise(outcome.err) /\ UNCHANGED decisions
       ELSE /\ decisions' = Append(decisions, outcome.decision)
            /\ pc' = "extracted"
            /\ UNCHANGED err
    /\ UNCHANGED <<consensus, execution_decision, events, team, response, loop, ta, fenyr>>

ExtractMarket == pc = "market" /\ Extracted(MarketAnalyze(response))

ExtractSentiment == pc = "sentiment" /\ Extracted(SentimentAnalyze(response))

ExtractRisk ==
    /\ pc = "risk"
    /\ Extracted(RiskAnalyze(RiskContext(DictGet(decisions, "MarketAnalyst")),
                             response))

ExtractNext ==
    \/ ExtractMarket
    \/ ExtractSentiment
    \/ ExtractRisk

SpecExtract == ExtractInit /\ [][ExtractNext]_vars

TypeOK ==
    /\ pc \in {"market", "sentiment", "risk", "consensus", "gate", "done",
              "raised", "hung"}
    /\ err \in {"none", "IOError", "UploadError", "KeyError", "ValueError",
               "AttributeError"}
    /\ Len(decisions) <= 3

(* ------------------------------- claims ------------------------------- *)

\* the risk stage's decision of this run (NoDecision before the risk stage)
RiskDecision == DictGet(decisions, "RiskManager")

\* calculate_consensus has returned in this run
ConsensusDone == consensus.action # "unset"

\* the place_order calls made so far
Orders == SelectSeq(events, LAMBDA e : e.type = "place_order")

\* C1 (as stated): when the risk stage's signal is Reject, calculate_consensus
\* returns action Hold, weighted score 0.0 and direction None.
C1_RiskVeto ==
    (ConsensusDone /\ RiskDecision.signal = "reject") =>
        /\ consensus.action = "hold"
        /\ consensus.confidence = 0
        /\ "direction" \in DOMAIN consensus
        /\ consensus.direction = "none"

\* C2 (as stated): a run in which the risk stage emits Reject, and in which no
\* collaborator call fails, does not raise, places no order, and the
\* TeamDecision it returns has action Hold and score 0.0.
C2_EndToEndVeto ==
    (RiskDecision.signal = "reject" /\ err \notin {"IOError", "UploadError"}) =>
        /\ pc # "raised"
        /\ Orders = <<>>
        /\ pc = "done" => (team.action = "hold" /\ team.confidence = 0)

\* C3: place_order is called only if the consensus action is Execute and the
\* direction is buy or sell; never on Alert or Hold, never without a direction.
C3_OrderOnlyOnExecute ==
    Orders # <<>> =>
        /\ consensus.action = "execute"
        /\ "direction" \in DOMAIN consensus
        /\ consensus.direction \in {"buy", "sell"}

C3_Witness == pc = "done" /\ Orders # <<>> /\ consensus.direction = "sell"

\* C4 (as stated): the size handed to place_order is within
\* [0, max_position_size].
C4_SizeWithinLimits ==
    \A i \in 1..Len(Orders) : Orders[i].size \in 0..MaxPositionSize

\* score a stage adds: confidence x weight when its signal is directional
Contribution(d, w) ==
    IF d.signal \in {"buy", "bullish", "approve", "sell", "bearish"}
    THEN d.confidence * w ELSE 0

\* weight a stage adds to the hold bucket
HoldVote(d, w) == IF d.signal \in {"hold", "neutral", "reduce"} THEN w ELSE 0

\* C5: when the risk signal is not Reject, weighted_score is the sum of
\* confidence x weight (market 0.35, sentiment 0.25, risk 0.40) over the stages
\* signalling Buy, Bullish, Approve, Sell or Bearish; stages signalling Hold,
\* Neutral or Reduce add their weight to the hold bucket and nothing to the score.
C5_WeightedScore ==
    (ConsensusDone /\ RiskDecision.signal # "reject") =>
        /\ consensus.confidence = Contribution(decisions[1], 35)
                                  + Contribution(decisions[2], 25)
                                  + Contribution(decisions[3], 40)
        /\ consensus.votes.hold = HoldVote(decisions[1], 35)
                                  + HoldVote(decisions[2], 25)
                                  + HoldVote(decisions[3], 40)
        /\ consensus.votes.buy + consensus.votes.sell + consensus.votes.hold = 100

C5_Witness ==
    /\ ConsensusDone
    /\ decisions[1].signal = "sell" /\ decisions[1].confidence = 75
    /\ decisions[2].signal = "neutral" /\ decisions[2].confidence = 100
    /\ decisions[3].signal = "approve" /\ decisions[3].confidence = 20
    /\ consensus.confidence = 3425

\* C6: the action is a function of weighted_score alone: Execute when the score
\* is >= 0.65, Alert when 0.45 <= score < 0.65, Hold when score < 0.45.
C6_ActionThresholds ==
    ConsensusDone =>
        /\ consensus.action = "execute" <=> consensus.confidence >= 6500
        /\ consensus.action = "alert" <=>
              (consensus.confidence >= 4500 /\ consensus.confidence < 6500)
        /\ consensus.action = "hold" <=> consensus.confidence < 4500

C6_Witness == consensus.action = "execute" /\ consensus.confidence = 6500

\* C7: the direction is buy when the buy vote weight is strictly larger than
\* the sell vote weight, sell when the sell weight is strictly larger, and none
\* when the two are equal.
C7_Direction ==
    "votes" \in DOMAIN consensus =>
        /\ consensus.votes.buy > consensus.votes.sell => consensus.direction = "buy"
        /\ consensus.votes.sell > consensus.votes.buy => consensus.direction = "sell"
        /\ consensus.votes.buy = consensus.votes.sell => consensus.direction = "none"

C7_Witness ==
    /\ "votes" \in DOMAIN consensus
    /\ consensus.votes.buy = consensus.votes.sell
    /\ consensus.direction = "none"

\* C8 (as stated): a run that returns without an order attempt records a Hold
\* AgentDecision for the executor stage, with confidence 0 and a
\* "no trade signal" rationale.
C8_BlockedRecordsHold ==
    (pc = "done" /\ Orders = <<>>) =>
        /\ execution_decision.agent_name = "Executor"
        /\ execution_decision.signal = "hold"
        /\ execution_decision.confidence = 0

\* C8 (amended): a run that returns without an order attempt records no
\* AgentDecision for the executor stage: execution_decision stays None and the
\* TeamDecision lists exactly the market, sentiment and risk decisions.
C8_BlockedRecordsNothing ==
    (pc = "done" /\ Orders = <<>>) =>
        /\ execution_decision = NoDecision
        /\ team.agent_decisions = decisions
        /\ \A i \in 1..Len(team.agent_decisions) :
              team.agent_decisions[i].agent_name # "Executor"
        /\ \A i \in 1..Len(events) : events[i].agent # "Executor"

C8_Witness ==
    /\ pc = "done" /\ Orders = <<>>
    /\ consensus.action = "hold" /\ consensus.direction = "buy"

\* C9 (as stated): when place_order returns an empty or missing order id the
\* executor's decision has confidence 0.0 and the signal of the attempted
\* direction; confidence 1.0 only when a non-empty order id was returned.
C9_ExecutionFailureReported ==
    execution_decision.agent_name = "Executor" =>
        LET order_id == execution_decision.output.order_id IN
        /\ order_id \in {NoOrderId, ""} =>
              /\ execution_decision.confidence = 0
              /\ execution_decision.signal = consensus.direction
        /\ execution_decision.confidence = 100 => order_id \notin {NoOrderId, ""}

\* C10: a completed cycle's TeamDecision lists the market, sentiment and risk
\* decisions in the order the stages ran, followed by the executor's decision
\* exactly when an order was attempted; that decision is uploaded to the
\* compliance log after the place_order call, with the order id when one was
\* returned and without one otherwise.
C10_DecisionTrail ==
    pc = "done" =>
        LET ads == team.agent_decisions
            attempted == Orders # <<>>
        IN
        /\ ads[1].agent_name = "MarketAnalyst" /\ ads[1] = decisions[1]
        /\ ads[2].agent_name = "SentimentAgent" /\ ads[2] = decisions[2]
        /\ ads[3].agent_name = "RiskManager" /\ ads[3] = decisions[3]
        /\ events[1].agent = "MarketAnalyst"
        /\ events[2].agent = "SentimentAgent"
        /\ events[3].agent = "RiskManager"
        /\ events[4].agent = "Coordinator"
        /\ Len(ads) = IF attempted THEN 4 ELSE 3
        /\ ~attempted => Len(events) = 4
        /\ attempted =>
              LET order_id == execution_decision.output.order_id IN
              /\ ads[4] = execution_decision
              /\ ads[4].agent_name = "Executor"
              /\ Len(events) = 6
              /\ events[5].type = "place_order"
              /\ events[6].type = "upload_ai_log"
              /\ events[6].agent = "Executor"
              /\ events[6].orderId =
                    IF order_id \in {NoOrderId, ""} THEN 0 ELSE IntOf(order_id)

C10_Witness ==
    /\ pc = "done" /\ Orders # <<>>
    /\ Len(team.agent_decisions) = 4
    /\ events[Len(events)].orderId = IntOf(IdDigits[1])

(* ----------------- calculate_consensus, on its own ------------------- *)

\* confidences of the stage decisions handed to calculate_consensus
ScenarioConfidences == {0, 50, 80, 90, 100}

\* a stage decision as calculate_consensus reads it: name, signal, confidence
ScenarioDecision(name, signal, confidence) ==
    Decision(name, signal, confidence, "analysis", [scenario |-> TRUE],
             [scenario |-> TRUE])

\* the three stage decisions are in self.decisions
ConsensusInit ==
    /\ pc = "scenario"
    /\ \E ms \in {"buy", "sell", "neutral", "hold"},
          ss \in {"bullish", "bearish", "neutral"},
          rs \in {"approve", "reduce", "reject"},
          mc \in ScenarioConfidences, sc \in ScenarioConfidences,
          rc \in ScenarioConfidences :
            decisions = <<ScenarioDecision("MarketAnalyst", ms, mc),
                          ScenarioDecision("SentimentAgent", ss, sc),
                          ScenarioDecision("RiskManager", rs, rc)>>
    /\ consensus = NoConsensus
    /\ execution_decision = NoDecision
    /\ events = <<>>
    /\ err = "none"
    /\ team = NoTeamDecision
    /\ response = EmptyReply
    /\ loop = NoLoop
    /\ Idle

\* consensus = self.calculate_consensus()
Consensus ==
    /\ pc = "scenario"
    /\ consensus' = calculate_consensus(decisions)
    /\ pc' = "scored"
    /\ UNCHANGED <<decisions, execution_decision, events, err, team, response,
                   loop, ta, fenyr>>

SpecConsensus == ConsensusInit /\ [][Consensus]_vars

(* ----------------------- repeated-cycle runners ----------------------- *)

\* what one cycle's body does: it returns with the action decided, or raises
ReturnedActions == {"execute", "alert", "hold"}
RaisedExceptions == {"IOError", "UploadError", "KeyError", "ValueError",
                "AttributeError", "KeyboardInterrupt"}

\* an except clause that catches nothing
Caught_Nothing(e) == FALSE

\* "except Exception": every exception but the interpreter's exit signals
Caught(e) == e # "KeyboardInterrupt"

Runners == {"run_hft_mode", "run_continuous_team", "run_continuous"}

\* a runner is called; cycles is the count given to run_hft_mode
LoopInit ==
    /\ \E mode \in Runners,
          cycles \in 0..MaxCycles :
            /\ mode # "run_hft_mode" => cycles = 0
            /\ loop = [mode |-> mode, cycles |-> cycles, cycle |-> 0,
                       at |-> "top", log |-> <<>>]
    /\ Idle
    /\ pc = "market"
    /\ decisions = <<>>
    /\ consensus = NoConsensus
    /\ execution_decision = NoDecision
    /\ events = <<>>
    /\ err = "none"
    /\ team = NoTeamDecision
    /\ response = EmptyReply

\* "for cycle in range(1, cycles + 1)" has more to do; "while True" always has
MoreCycles ==
    IF loop.mode = "run_hft_mode" THEN loop.cycle < loop.cycles
    ELSE loop.cycle < MaxCycles

\* where the loop is after the try statement: run_hft_mode sleeps only
\* "if cycle < cycles", the continuous runners always sleep
AfterTry ==
    IF loop.mode = "run_hft_mode" /\ ~(loop.cycle < loop.cycles) THEN "top"
    ELSE "sleep"

Unchanged_pipeline ==
    UNCHANGED <<pc, decisions, consensus, execution_decision, events, err, team,
                response, ta, fenyr>>

\* the loop enters the try statement of its next cycle
StartCycle ==
    /\ loop.at = "top"
    /\ MoreCycles
    /\ loop' = [loop EXCEPT !.cycle = @ + 1, !.at = "body"]
    /\ Unchanged_pipeline

\* the cycle's body returns
CycleReturn ==
    /\ loop.at = "body"
    /\ \E action \in ReturnedActions :
          loop' = [loop EXCEPT !.log = Append(@, action), !.at = AfterTry]
    /\ Unchanged_pipeline

\* the cycle's body raises: the except clause catches it, or it leaves the loop
CycleRaise ==
    /\ loop.at = "body"
    /\ \E e \in RaisedExceptions :
          loop' = [loop EXCEPT !.log = Append(@, e),
                               !.at = IF Caught(e) THEN AfterTry ELSE "left"]
    /\ Unchanged_pipeline

\* time.sleep(interval) returns
Sleep ==
    /\ loop.at = "sleep"
    /\ loop' = [loop EXCEPT !.at = "top"]
    /\ Unchanged_pipeline

\* the for loop of run_hft_mode is exhausted: the session summary is printed
SessionComplete ==
    /\ loop.at = "top"
    /\ loop.mode = "run_hft_mode"
    /\ ~MoreCycles
    /\ loop' = [loop EXCEPT !.at = "complete"]
    /\ Unchanged_pipeline

LoopNext ==
    \/ StartCycle
    \/ CycleReturn
    \/ CycleRaise
    \/ Sleep
    \/ SessionComplete

SpecLoop == LoopInit /\ [][LoopNext]_vars

(* ----------------------- a session of team cycles --------------------- *)

\* the replies GPT gives in a session: text without an object, and objects
\* at full confidence
SessionReplies == {TextReply} \cup
    {ObjectReply(Str(x), Num(100), Absent, Str("analysis")) :
        x \in {"BUY", "Sell", "Bullish"}}
SessionRiskReplies ==
    {ObjectReply(Str(x), Num(100), Num(MaxPositionSize), Str("analysis")) :
        x \in {"APPROVE", "Reject"}}

TeamRunners == {"run_hft_mode", "run_continuous_team"}

\* a team runner is called; placed counts the place_order calls of the cycles
\* that have ended, raised the cycles whose exception was caught
SessionInit ==
    /\ \E mode \in TeamRunners,
          cycles \in 0..MaxCycles :
            /\ mode # "run_hft_mode" => cycles = 0
            /\ loop = [mode |-> mode, cycles |-> cycles, cycle |-> 0,
                       at |-> "top", placed |-> 0, raised |-> 0]
    /\ Idle
    /\ pc = "idle"
    /\ decisions = <<>>
    /\ consensus = NoConsensus
    /\ execution_decision = NoDecision
    /\ events = <<>>
    /\ err = "none"
    /\ team = NoTeamDecision
    /\ response = EmptyReply

\* the loop enters its next cycle and calls run_team_analysis
BeginCycle ==
    /\ loop.at = "top"
    /\ MoreCycles
    /\ loop' = [loop EXCEPT !.cycle = @ + 1, !.at = "body"]
    /\ pc' = "market"
    /\ UNCHANGED <<decisions, consensus, execution_decision, events, err, team,
                   response, ta, fenyr>>

SessionMarket == loop.at = "body" /\ MarketStageOn(SessionReplies)
SessionSentiment == loop.at = "body" /\ SentimentStageOn(SessionReplies)
SessionRisk == loop.at = "body" /\ RiskStageOn(SessionRiskReplies)
SessionCoordinator == loop.at = "body" /\ CoordinatorStage
SessionExecutor == loop.at = "body" /\ ExecutorStage
SessionNoExecution == loop.at = "body" /\ NoExecution

\* the place_order calls of the run in progress
PlacedInRun == Len(SelectSeq(events, LAMBDA e : e.type = "place_order"))

\* run_team_analysis is left: its locals are gone
RunLeft ==
    /\ pc' = "idle"
    /\ decisions' = <<>>
    /\ consensus' = NoConsensus
    /\ execution_decision' = NoDecision
    /\ events' = <<>>
    /\ err' = "none"
    /\ team' = NoTeamDecision
    /\ UNCHANGED <<response, ta, fenyr>>

\* run_team_analysis returns its TeamDecision to the runner
TeamReturns ==
    /\ loop.at = "body"
    /\ pc = "done"
    /\ loop' = [loop EXCEPT !.placed = @ + PlacedInRun, !.at = AfterTry]
    /\ RunLeft

\* run_team_analysis raises: the except clause catches it, or it leaves the loop
TeamRaises ==
    /\ loop.at = "body"
    /\ pc = "raised"
    /\ loop' = [loop EXCEPT !.placed = @ + PlacedInRun,
                            !.raised = @ + (IF Caught(err) THEN 1 ELSE 0),
                            !.at = IF Caught(err) THEN AfterTry ELSE "left"]
    /\ RunLeft

SessionNext ==
    \/ BeginCycle
    \/ SessionMarket
    \/ SessionSentiment
    \/ SessionRisk
    \/ SessionCoordinator
    \/ SessionExecutor
    \/ SessionNoExecution
    \/ TeamReturns
    \/ TeamRaises
    \/ Sleep
    \/ SessionComplete

SpecSession == SessionInit /\ [][SessionNext]_vars

(* ------------------------ technical indicators ------------------------ *)

\* "period: int = 14" of calculate_rsi, and the 14 of calculate_indicators
RsiPeriod == 14
\* "len(candles) < 20" of calculate_indicators
MinCandles == 20

\* a candle is its close price, or Junk when it is not a list of five fields
Junk == 0
BasePrice == 30
Deltas == {-1, 0, 1}
Pattern == {<<a, b, c>> : a \in Deltas, b \in Deltas, c \in Deltas}

\* the i-th close of the series that starts at BasePrice and moves by the
\* pattern's three steps in turn
RECURSIVE PriceAt(_, _)
PriceAt(i, d) ==
    IF i <= 1 THEN BasePrice ELSE PriceAt(i - 1, d) + d[((i - 2) % 3) + 1]

\* n candles, the first j of them malformed
Series(n, j, d) == [i \in 1..n |-> IF i <= j THEN Junk ELSE PriceAt(i, d)]

\* the series get_candles may return
CandleSeries ==
    {Series(n, j, d) : n \in 0..MaxCandles, j \in {0, 6, MaxCandles - 2, MaxCandles},
                       d \in Pattern}

\* "[float(c[4]) for c in candles if isinstance(c, list) and len(c) > 4]"
Closes(candles) == SelectSeq(candles, LAMBDA c : c # Junk)

\* data[-k:]
LastN(data, k) ==
    IF Len(data) <= k THEN data ELSE SubSeq(data, Len(data) - k + 1, Len(data))

\* np.diff, and the sums of np.where(deltas > 0, deltas, 0) and of
\* np.where(deltas < 0, -deltas, 0)
Diff(prices) ==
    IF Len(prices) < 2 THEN <<>>
    ELSE [i \in 1..(Len(prices) - 1) |-> prices[i + 1] - prices[i]]

RECURSIVE SumGains(_)
SumGains(deltas) ==
    IF deltas = <<>> THEN 0
    ELSE (IF Head(deltas) > 0 THEN Head(deltas) ELSE 0) + SumGains(Tail(deltas))

RECURSIVE SumLosses(_)
SumLosses(deltas) ==
    IF deltas = <<>> THEN 0
    ELSE (IF Head(deltas) < 0 THEN 0 - Head(deltas) ELSE 0) + SumLosses(Tail(deltas))

\* a fraction, and round(x, 2) of it in hundredths (no fraction that occurs
\* here lies half way between two hundredths)
Frac(num, den) == [num |-> num, den |-> den]

Round2(q) ==
    LET n == IF q.num < 0 THEN 0 - q.num ELSE q.num
        whole == n \div q.den
        rest == 100 * (n % q.den)
        h == rest \div q.den
        up == IF 2 * (rest % q.den) >= q.den THEN 1 ELSE 0
        r == 100 * whole + h + up
    IN  IF q.num < 0 THEN 0 - r ELSE r

\* 100 - (100 / (1 + rs)) with rs = gain / loss, as a fraction
RsiOf(gain, loss) == Frac(100 * gain, gain + loss)

\* TechnicalAnalysis.calculate_rsi, in hundredths
calculate_rsi(prices, period) ==
    IF Len(prices) < period + 1 THEN 5000
    ELSE LET deltas == LastN(Diff(prices), period)
             gain == SumGains(deltas)
             loss == SumLosses(deltas)
         IN  IF loss = 0 THEN 10000 ELSE Round2(RsiOf(gain, loss))

\* the RSI of MarketAnalystAgent.calculate_indicators, in hundredths: with
\* fewer than 14 deltas avg_gain is 0 and avg_loss 1; rs is 100 when avg_loss
\* is not positive
MarketRsi(closes) ==
    LET deltas == Diff(closes)
        enough == Len(deltas) >= RsiPeriod
        gain == IF enough THEN SumGains(LastN(deltas, RsiPeriod)) ELSE 0
        loss == IF enough THEN SumLosses(LastN(deltas, RsiPeriod)) ELSE RsiPeriod
    IN  IF loss > 0 THEN Round2(RsiOf(gain, loss))
        ELSE Round2(Frac(100 * 100, 1 + 100))

\* multiplier = 2 / (period + 1), in lowest terms
Multiplier(period) ==
    IF period % 2 = 1 THEN Frac(1, (period + 1) \div 2) ELSE Frac(2, period + 1)

\* "for price in data[1:]: ema = (price - ema) * multiplier + ema"
RECURSIVE EmaLoop(_, _, _)
EmaLoop(ema, data, m) ==
    IF data = <<>> THEN ema
    ELSE EmaLoop(Frac(ema.num * (m.den - m.num) + Head(data) * m.num * ema.den,
                      ema.den * m.den),
                 Tail(data), m)

\* the EMA recurrence seeded with the first price
Ema(data, period) == EmaLoop(Frac(data[1], 1), Tail(data), Multiplier(period))

\* TechnicalAnalysis.calculate_ema, in hundredths
calculate_ema(prices, period) ==
    IF Len(prices) < period
    THEN (IF prices # <<>> THEN 100 * prices[Len(prices)] ELSE 0)
    ELSE Round2(Ema(prices, period))

\* TechnicalAnalysis.calculate_macd, in hundredths
calculate_macd(prices) ==
    LET ema_12 == calculate_ema(prices, 12)
        ema_26 == calculate_ema(prices, 26)
        macd_line == ema_12 - ema_26
        signal_line == IF Len(prices) >= 9
                       THEN calculate_ema(LastN(prices, 9), 9)
                       ELSE macd_line
    IN  [macd |-> macd_line, signal |-> signal_line,
         histogram |-> macd_line - signal_line]

\* an entry of the indicators that is not followed here (a recurrence over
\* more than MaxEmaLen closes)
NotFollowed == -1

\* MarketAnalystAgent.calculate_indicators: {} for fewer than 20 candles,
\* IndexError from data[0] when no candle has a close
calculate_indicators(candles) ==
    IF Len(candles) < MinCandles THEN [kind |-> "empty"]
    ELSE LET closes == Closes(candles)
             short == Len(closes) <= MaxEmaLen
         IN  IF closes = <<>> THEN [kind |-> "raised", error |-> "IndexError"]
             ELSE [kind |-> "value",
                   rsi_14 |-> MarketRsi(closes),
                   ema_20 |-> IF short THEN Round2(Ema(closes, 20)) ELSE NotFollowed,
                   ema_50 |-> IF ~short THEN NotFollowed
                              ELSE IF Len(closes) >= 50 THEN Round2(Ema(closes, 50))
                              ELSE Round2(Ema(closes, 20)),
                   current_price |-> closes[Len(closes)]]

\* get_candles has returned a series
IndicatorsInit ==
    /\ pc = "candles"
    /\ ta \in {[fn |-> "none", candles |-> c, out |-> [kind |-> "none"]] :
                  c \in CandleSeries}
    /\ decisions = <<>>
    /\ consensus = NoConsensus
    /\ execution_decision = NoDecision
    /\ events = <<>>
    /\ err = "none"
    /\ team = NoTeamDecision
    /\ response = EmptyReply
    /\ loop = NoLoop
    /\ fenyr = NoFenyr

\* an indicator function has returned
Computed(fn, out) ==
    /\ pc = "candles"
    /\ ta' = [ta EXCEPT !.fn = fn, !.out = out]
    /\ pc' = "computed"
    /\ UNCHANGED <<decisions, consensus, execution_decision, events, err, team,
                   response, loop, fenyr>>

\* _get_technical_indicators: an error without closes, else the indicator asked
Indicator(closes, value) ==
    IF closes = <<>> THEN [kind |-> "error"] ELSE value

\* _get_technical_indicators with "rsi"
GetRsi ==
    LET closes == Closes(ta.candles)
    IN  Computed("calculate_rsi",
                 Indicator(closes, [kind |-> "value",
                                    rsi_14 |-> calculate_rsi(closes, RsiPeriod)]))

\* _get_technical_indicators with "ema_20" or "ema_50"
GetEma ==
    LET closes == Closes(ta.candles)
    IN  /\ Len(closes) <= MaxEmaLen
        /\ \E period \in {20, 50} :
              Computed("calculate_ema",
                       Indicator(closes, [kind |-> "value", period |-> period,
                                          ema |-> calculate_ema(closes, period)]))

\* _get_technical_indicators with "macd"
GetMacd ==
    LET closes == Closes(ta.candles)
    IN  /\ Len(closes) <= MaxMacdLen
        /\ Computed("calculate_macd",
                    Indicator(closes, [kind |-> "value",
                                       macd |-> calculate_macd(closes)]))

\* the market stage computes its indicators
CalculateIndicators ==
    Computed("calculate_indicators", calculate_indicators(ta.candles))

IndicatorsNext ==
    \/ GetRsi
    \/ GetEma
    \/ GetMacd
    \/ CalculateIndicators

SpecIndicators == IndicatorsInit /\ [][IndicatorsNext]_vars

(* --------------------------- the single agent ------------------------- *)

\* "if confidence < 0.6", in hundredths
MinConfidence == 60
\* "if len(self.conversation_history) > 20"
HistoryLimit == 20
\* max_position_size of FenyrAgent, in units of 0.0001 BTC
FenyrMaxPositionSize == 2

ACTION_TO_SIDE == [open_long |-> 1, close_short |-> 2, open_short |-> 3,
                   close_long |-> 4]

\* a number json.loads or float() gives that is not a number
NaN == [t |-> "nan", s |-> "", n |-> 0]

\* float(size) on the size strings the model gives; on any other string it
\* raises ValueError
FloatOf == [s0_0002 |-> Num(2), s0_0003 |-> Num(3), nan |-> NaN]
SizeStrings == DOMAIN FloatOf \cup {"small"}

\* the arguments the model may give to the execute_trade tool
TradeConfidences == {Num(59), Num(60), NaN}
TradeActions == {"open_long", "buy"}

\* x < y and x > y on floats: both are false when x is not a number
LessThan(x, y) == x.t = "num" /\ x.n < y
GreaterThan(x, y) == x.t = "num" /\ x.n > y

\* what one _execute_trade call did: its arguments, how it ended, and whether
\* it placed an order, uploaded a log and counted a trade
TradeCall(action, size, confidence, outcome, placed, logged, counted) ==
    [action |-> action, size |-> size, confidence |-> confidence,
     outcome |-> outcome, placed |-> placed, logged |-> logged,
     counted |-> counted]

NoTradeCall == TradeCall("none", "none", Num(0), "none", FALSE, FALSE, FALSE)

\* FenyrAgent._execute_trade, given what get_ticker does and what
\* upload_ai_log (or int(order_id) in its arguments) does
execute_trade_tool(action, size, confidence, io, up) ==
    LET Ends(outcome, placed, logged, counted) ==
            TradeCall(action, size, confidence, outcome, placed, logged, counted)
    IN  IF LessThan(confidence, MinConfidence)
        THEN Ends("error", FALSE, FALSE, FALSE)
        ELSE IF size \notin DOMAIN FloatOf
        THEN Ends("ValueError", FALSE, FALSE, FALSE)
        ELSE IF GreaterThan(FloatOf[size], FenyrMaxPositionSize)
        THEN Ends("error", FALSE, FALSE, FALSE)
        ELSE IF io = "fail" THEN Ends("IOError", FALSE, FALSE, FALSE)
        ELSE IF io = "hang" THEN Ends("hung", FALSE, FALSE, FALSE)
        ELSE IF action \notin DOMAIN ACTION_TO_SIDE
        THEN Ends("error", FALSE, FALSE, FALSE)
        ELSE IF up = "raise" THEN Ends("UploadError", TRUE, FALSE, FALSE)
        ELSE IF up = "hang" THEN Ends("hung", TRUE, FALSE, FALSE)
        ELSE Ends("executed", TRUE, TRUE, TRUE)

\* len(conversation_history) after _add_message
AddMessage(history) ==
    IF history + 1 > HistoryLimit THEN HistoryLimit ELSE history + 1

\* fenyr.history is len(self.conversation_history): the code reads nothing
\* else of the list when it trims it
\* FenyrAgent.__init__
AgentInit ==
    /\ pc = "agent"
    /\ fenyr = [at |-> "idle", history |-> 0, trade_count |-> 0, calls |-> 0,
                rounds |-> 0, pending |-> 0, last |-> NoTradeCall]
    /\ decisions = <<>>
    /\ consensus = NoConsensus
    /\ execution_decision = NoDecision
    /\ events = <<>>
    /\ err = "none"
    /\ team = NoTeamDecision
    /\ response = EmptyReply
    /\ loop = NoLoop
    /\ ta = NoTa

Unchanged_team ==
    UNCHANGED <<pc, decisions, consensus, execution_decision, events, err, team,
                response, loop, ta>>

\* analyze_and_trade is called (again, by run_continuous, after a call that
\* returned or raised): the user prompt is added and GPT is called
BeginAnalysis ==
    /\ fenyr.at \in {"idle", "raised"}
    /\ fenyr.calls < MaxCalls
    /\ fenyr' = [fenyr EXCEPT !.history = AddMessage(@), !.calls = @ + 1,
                              !.rounds = 0, !.at = "gpt"]
    /\ Unchanged_team

\* the GPT call raises
GptFails ==
    /\ fenyr.at = "gpt"
    /\ fenyr' = [fenyr EXCEPT !.at = "raised"]
    /\ Unchanged_team

\* GPT answers with tool calls: the assistant message is appended
AssistantToolCalls ==
    /\ fenyr.at = "gpt"
    /\ fenyr.rounds < MaxRounds
    /\ \E k \in 1..MaxToolCalls :
          fenyr' = [fenyr EXCEPT !.history = @ + 1, !.rounds = @ + 1,
                                 !.pending = k, !.at = "tools"]
    /\ Unchanged_team

\* where the loop is once a tool result is appended
AfterTool == IF fenyr.pending = 1 THEN "gpt" ELSE "tools"

\* a tool call other than execute_trade: its result is appended, unless its
\* request raised or never returned
DataTool ==
    /\ fenyr.at = "tools"
    /\ \E io \in IoOutcomes :
          fenyr' =
            IF io = "ok"
            THEN [fenyr EXCEPT !.history = @ + 1, !.pending = @ - 1,
                               !.at = AfterTool]
            ELSE [fenyr EXCEPT !.pending = 0,
                               !.at = IF io = "hang" THEN "hung" ELSE "raised"]
    /\ Unchanged_team

\* the execute_trade tool call: _execute_trade, then its result is appended,
\* unless it raised or never returned
ExecuteTradeTool ==
    /\ fenyr.at = "tools"
    /\ \E action \in TradeActions, size \in SizeStrings,
          confidence \in TradeConfidences, io \in IoOutcomes,
          up \in UploadOutcomes :
          LET call == execute_trade_tool(action, size, confidence, io, up)
          IN  fenyr' =
                IF call.outcome \in {"error", "executed"}
                THEN [fenyr EXCEPT !.history = @ + 1, !.pending = @ - 1,
                                   !.at = AfterTool, !.last = call,
                                   !.trade_count = @ + (IF call.counted THEN 1 ELSE 0)]
                ELSE [fenyr EXCEPT !.last = call, !.pending = 0,
                                   !.at = IF call.outcome = "hung" THEN "hung"
                                          ELSE "raised"]
    /\ Unchanged_team

\* GPT answers without tool calls: the final response is added
FinalResponse ==
    /\ fenyr.at = "gpt"
    /\ fenyr' = [fenyr EXCEPT !.history = AddMessage(@), !.at = "idle"]
    /\ Unchanged_team

AgentNext ==
    \/ BeginAnalysis
    \/ GptFails
    \/ AssistantToolCalls
    \/ DataTool
    \/ ExecuteTradeTool
    \/ FinalResponse

SpecAgent == AgentInit /\ [][AgentNext]_vars

(* ------------------------ claims on extraction ------------------------ *)

\* the decision a stage has just extracted (NoDecision before it did)
LastDecision ==
    IF pc = "extracted" THEN decisions[Len(decisions)] ELSE NoDecision

\* the reply's braces enclose a JSON object
Parsed(reply) == Braced(reply) /\ reply.json = "valid"

\* the default signal and confidence of each stage
StageDefault ==
    [MarketAnalyst |-> [signal |-> "neutral", confidence |-> 50],
     SentimentAgent |-> [signal |-> "neutral", confidence |-> 50],
     RiskManager |-> [signal |-> "approve", confidence |-> 70]]

\* C11 (as stated): extraction never raises: whatever the reply (empty, no
\* braces, unmatched or nested braces, a non-string signal, a non-numeric
\* confidence or recommended_size), the stage produces a decision.
C11_ExtractionNeverRaises == pc # "raised"

\* C12 (as stated): every stage decision has a confidence within [0, 1]
\* (0..100 hundredths): values outside are clamped, an absent one defaults.
C12_ConfidenceInRange ==
    \A i \in 1..Len(decisions) : decisions[i].confidence \in 0..100

\* a stage decision made from the stage's fallback: the raw text as rationale
IsFallback(d) == d.reasoning \in {r.raw : r \in UnparseableReplies}

\* C13 (as stated): when a stage's reply is unparseable the stage yields its
\* default signal and confidence with the raw reply as rationale, and the run
\* still completes with a consensus result: no exception of the pipeline's
\* own code leaves it.
C13_FallbackRunCompletes ==
    \A i \in 1..Len(decisions) :
        IsFallback(decisions[i]) =>
            /\ decisions[i].signal = StageDefault[decisions[i].agent_name].signal
            /\ decisions[i].confidence =
                   StageDefault[decisions[i].agent_name].confidence
            /\ pc = "raised" => err \in {"IOError", "UploadError"}

\* C14 (as stated): an object without a "signal" key is treated as a parse
\* failure: the decision is the complete fallback triple (default signal,
\* default confidence, raw reply as rationale) whatever else the object holds.
C14_MissingSignalIsFallback ==
    (pc = "extracted" /\ Parsed(response) /\ response.signal = Absent) =>
        /\ LastDecision.signal = StageDefault[LastDecision.agent_name].signal
        /\ LastDecision.confidence =
               StageDefault[LastDecision.agent_name].confidence
        /\ LastDecision.reasoning = response.raw

\* the signals each stage may emit
StageVocabulary ==
    [MarketAnalyst |-> {"buy", "sell", "neutral", "hold"},
     SentimentAgent |-> {"bullish", "bearish", "neutral"},
     RiskManager |-> {"approve", "reduce", "reject"}]

\* the Signal value a name spells, letter case aside
Lower ==
    [BUY |-> "buy", SELL |-> "sell", NEUTRAL |-> "neutral", HOLD |-> "hold",
     BULLISH |-> "bullish", BEARISH |-> "bearish", APPROVE |-> "approve",
     REDUCE |-> "reduce", REJECT |-> "reject", STRONG_BUY |-> "strong_buy"]

\* C15: a stage emits only signals of its own vocabulary; a name of its
\* vocabulary is recognised whatever its letter case, and every other name
\* (another stage's included) gives the stage default.
C15_StageVocabulary ==
    pc = "extracted" =>
        LET d == LastDecision
            vocabulary == StageVocabulary[d.agent_name]
        IN  /\ d.signal \in vocabulary
            /\ (Parsed(response) /\ response.signal.t = "str") =>
                   LET name == Lower[Upper[response.signal.s]]
                   IN  d.signal = IF name \in vocabulary THEN name
                                  ELSE StageDefault[d.agent_name].signal

\* the market stage was given another stage's name and emitted its default
C15_Witness ==
    /\ pc = "extracted"
    /\ LastDecision.agent_name = "MarketAnalyst"
    /\ response.signal = Str("Bullish")
    /\ LastDecision.signal = "neutral"

(* ------------------------- claims on the run -------------------------- *)

\* the agents of a sequence of decisions or events, in order
Agents(seq) == [i \in 1..Len(seq) |-> seq[i].agent_name]
Senders(seq) == [i \in 1..Len(seq) |-> seq[i].agent]

\* s is a prefix of t
IsPrefix(s, t) == Len(s) <= Len(t) /\ \A i \in 1..Len(s) : s[i] = t[i]

\* C16: the steps of a run occur in the order market, sentiment, risk,
\* consensus, execution: the risk stage runs after the market decision exists
\* and is handed its signal and confidence as the proposal; place_order is
\* called only after the three stage decisions and the consensus, so a run
\* abandoned earlier has placed no order.
C16_StrictOrder ==
    /\ IsPrefix(Agents(decisions), <<"MarketAnalyst", "SentimentAgent", "RiskManager">>)
    /\ RiskDecision # NoDecision =>
           RiskDecision.input =
               [proposed_signal |-> decisions[1].signal,
                proposed_confidence |-> decisions[1].confidence]
    /\ ConsensusDone => Len(decisions) = 3
    /\ execution_decision # NoDecision => ConsensusDone
    /\ IsPrefix(Senders(events), <<"MarketAnalyst", "SentimentAgent", "RiskManager",
                                   "Coordinator", "Executor", "Executor">>)
    /\ Orders # <<>> =>
           /\ Len(decisions) = 3
           /\ ConsensusDone
           /\ Len(events) >= 5
           /\ events[5].type = "place_order"
    /\ pc \in {"market", "sentiment", "risk", "consensus", "gate"} => Orders = <<>>

\* an order was placed in a run whose risk stage was handed a sell proposal
C16_Witness ==
    /\ Orders # <<>>
    /\ RiskDecision.input.proposed_signal = "sell"
    /\ RiskDecision.input.proposed_confidence = 75

\* C17 (as stated): a failed upload of a decision, whether it raises or
\* returns an error, never aborts the run.
C17_UploadFailureNotFatal == err # "UploadError"

\* C19 (as stated): every call to a collaborator is bounded by a timeout, so
\* no run stays inside a call for ever.
C19_NeverBlocked == pc # "hung"

\* the decisions of end-to-end scenario 1
ScenarioOne ==
    <<ScenarioDecision("MarketAnalyst", "buy", 90),
      ScenarioDecision("SentimentAgent", "bullish", 80),
      ScenarioDecision("RiskManager", "approve", 90)>>

\* C20 (as stated): in scenario 1 (Buy 0.9, Bullish 0.8, Approve 0.9) the
\* weighted score is 0.935, the action Execute and the direction buy.
C20_ScenarioOneScore935 ==
    (pc = "scored" /\ decisions = ScenarioOne) =>
        /\ consensus.confidence = 9350
        /\ consensus.action = "execute"
        /\ consensus.direction = "buy"

\* C20 (amended): in scenario 1 the weighted score is 0.875
\* (0.35 x 0.9 + 0.25 x 0.8 + 0.40 x 0.9), the action Execute and the
\* direction buy.
C20_ScenarioOneScore875 ==
    (pc = "scored" /\ decisions = ScenarioOne) =>
        /\ consensus.confidence = 8750
        /\ consensus.action = "execute"
        /\ consensus.direction = "buy"

\* calculate_consensus has returned for scenario 1
C20_Witness == pc = "scored" /\ decisions = ScenarioOne

(* ------------------------ claims on the runners ----------------------- *)

\* cycles whose body has finished
FinishedCycles == loop.cycle - (IF loop.at = "body" THEN 1 ELSE 0)

\* C18: a cycle that raises is caught at the cycle boundary and the loop goes
\* on to its sleep and its next cycle; a failed cycle never ends the loop,
\* and run_hft_mode completes only after its full count of cycles.
C18_FailedCycleContinues ==
    /\ Len(loop.log) = FinishedCycles
    /\ loop.at = "left" => loop.log[Len(loop.log)] = "KeyboardInterrupt"
    /\ (loop.at \in {"sleep", "top", "complete"} /\ loop.log # <<>>) =>
           loop.log[Len(loop.log)] # "KeyboardInterrupt"
    /\ loop.at = "complete" =>
           /\ loop.mode = "run_hft_mode"
           /\ loop.cycle = loop.cycles
           /\ Len(loop.log) = loop.cycles

\* run_hft_mode completed a session whose first cycle raised
C18_Witness ==
    /\ loop.at = "complete"
    /\ loop.cycles >= 2
    /\ loop.log[1] = "KeyError"

(* ------------------------ claims on the consensus --------------------- *)

\* the decisions of end-to-end scenario 3
ScenarioThree ==
    <<ScenarioDecision("MarketAnalyst", "sell", 50),
      ScenarioDecision("SentimentAgent", "neutral", 50),
      ScenarioDecision("RiskManager", "approve", 50)>>

\* C21 (as stated): in scenario 3 (Sell 0.5, Neutral 0.5, Approve 0.5) the
\* weighted score is 0.425 and the action Hold, so no order is placed.
C21_ScenarioThreeScore425 ==
    (pc = "scored" /\ decisions = ScenarioThree) =>
        /\ consensus.confidence = 4250
        /\ consensus.action = "hold"
        /\ ~ExecutionGate(consensus)

\* C21 (amended): in scenario 3 the weighted score is 0.375
\* (0.35 x 0.5 + 0.40 x 0.5) and the action Hold, so the gate stays closed and
\* no order is placed.
C21_ScenarioThreeScore375 ==
    (pc = "scored" /\ decisions = ScenarioThree) =>
        /\ consensus.confidence = 3750
        /\ consensus.action = "hold"
        /\ ~ExecutionGate(consensus)

\* calculate_consensus has returned for scenario 3
C21_Witness == pc = "scored" /\ decisions = ScenarioThree

\* the stage's signal is one that neither buys nor sells
VotesHold(d) == d.signal \in {"hold", "neutral", "reduce"}

\* C27: when the risk signal is not Reject, the direction is none only when
\* all three stages vote hold, and then the score is 0 and the action Hold;
\* an Execute or Alert consensus always has a direction.
C27_NoDirectionOnlyWhenAllHold ==
    (pc = "scored" /\ decisions[3].signal # "reject") =>
        /\ consensus.direction = "none" =>
              /\ \A i \in 1..3 : VotesHold(decisions[i])
              /\ consensus.confidence = 0
              /\ consensus.action = "hold"
        /\ consensus.action \in {"execute", "alert"} =>
              consensus.direction \in {"buy", "sell"}

\* all three stages voted hold and the direction is none
C27_Witness ==
    /\ pc = "scored"
    /\ decisions[3].signal = "reduce"
    /\ decisions[1].confidence = 100
    /\ consensus.direction = "none"

\* every stage confidence of the run is within [0, 1]
ConfidencesInRange ==
    \A i \in 1..Len(decisions) : decisions[i].confidence \in 0..100

\* C28: with all stage confidences in [0, 1], the action is Execute only if
\* the risk signal is Approve: Reduce adds nothing to the score, which is then
\* at most 0.60, and no order is placed in a run whose risk stage said Reduce
\* or Reject.
C28_ExecuteNeedsApprove ==
    (ConfidencesInRange /\ RiskDecision.signal \in {"reduce", "reject"}) =>
        /\ Orders = <<>>
        /\ ConsensusDone => consensus.action # "execute"
        /\ (ConsensusDone /\ RiskDecision.signal = "reduce") =>
              /\ consensus.confidence <= 6000
              /\ consensus.confidence =
                    Contribution(decisions[1], 35) + Contribution(decisions[2], 25)

\* a run with risk Reduce reached the largest score two stages can give
C28_Witness ==
    /\ pc = "done"
    /\ ConfidencesInRange
    /\ RiskDecision.signal = "reduce"
    /\ consensus.confidence = 6000
    /\ Orders = <<>>

\* C29 (as stated): the direction is buy only if the market stage signalled
\* Buy or the sentiment stage signalled Bullish; no buy order is placed in a
\* run where the market stage signalled Sell and the sentiment stage was not
\* Bullish.
C29_BuyNeedsBuyVote ==
    /\ (ConsensusDone /\ RiskDecision.signal # "reject"
            /\ consensus.direction = "buy") =>
           decisions[1].signal = "buy" \/ decisions[2].signal = "bullish"
    /\ \A i \in 1..Len(Orders) :
           Orders[i].side = SideOf("buy") =>
               ~(decisions[1].signal = "sell" /\ decisions[2].signal # "bullish")

(* ----------------------- claims on the indicators --------------------- *)

\* the closes the indicator function was given
TaCloses == Closes(ta.candles)

\* an RSI was computed, by either of the program's two RSI computations
RsiComputed ==
    /\ ta.fn \in {"calculate_rsi", "calculate_indicators"}
    /\ ta.out.kind = "value"

\* C22 (as stated): every RSI(14) the program computes is within [0, 100], is
\* the neutral 50.0 when fewer than 15 prices are given, and is exactly 100
\* when the mean loss over the last 14 deltas is 0.
C22_RsiContract ==
    RsiComputed =>
        /\ ta.out.rsi_14 \in 0..10000
        /\ Len(TaCloses) < RsiPeriod + 1 => ta.out.rsi_14 = 5000
        /\ (Len(TaCloses) >= RsiPeriod + 1
              /\ SumLosses(LastN(Diff(TaCloses), RsiPeriod)) = 0) =>
                 ta.out.rsi_14 = 10000

\* C23 (as stated): for a non-empty series shorter than the period, EMA(period)
\* is the EMA recurrence (seeded with the first price, multiplier
\* 2 / (period + 1)) over all the points there are.
C23_EmaShortInput ==
    /\ (ta.fn = "calculate_ema" /\ ta.out.kind = "value"
            /\ Len(TaCloses) < ta.out.period) =>
           ta.out.ema = Round2(Ema(TaCloses, ta.out.period))
    /\ (ta.fn = "calculate_indicators" /\ ta.out.kind = "value"
            /\ ta.out.ema_20 # NotFollowed) =>
           /\ ta.out.ema_20 = Round2(Ema(TaCloses, 20))
           /\ ta.out.ema_50 = Round2(Ema(TaCloses, 50))

\* the MACD line after each of the closes, and EMA(9) over the last nine of
\* those values (over all of them when there are fewer), in hundredths
MacdHistory(prices) ==
    [i \in 1..Len(prices) |->
        calculate_ema(SubSeq(prices, 1, i), 12) - calculate_ema(SubSeq(prices, 1, i), 26)]

SignalOverMacd(prices) ==
    LET e == Ema(LastN(MacdHistory(prices), 9), 9)
    IN  Round2(Frac(e.num, e.den * 100))

\* C24 (as stated): the MACD line is EMA(12) - EMA(26) of the closes, the
\* signal line is EMA(9) over the trailing MACD-line values, not over raw
\* prices, and the histogram reported is the MACD line reported minus the
\* signal line reported.
C24_MacdSignalOverMacd ==
    (ta.fn = "calculate_macd" /\ ta.out.kind = "value") =>
        /\ ta.out.macd.macd =
               calculate_ema(TaCloses, 12) - calculate_ema(TaCloses, 26)
        /\ ta.out.macd.signal = SignalOverMacd(TaCloses)
        /\ ta.out.macd.histogram = ta.out.macd.macd - ta.out.macd.signal

(* --------------------- claims on the single agent --------------------- *)

\* the gate's three conditions, as the claim states them
GateConditions(call) ==
    /\ call.confidence.t = "num" /\ call.confidence.n >= MinConfidence
    /\ call.size \in DOMAIN FloatOf
    /\ FloatOf[call.size].t = "num"
    /\ FloatOf[call.size].n <= FenyrMaxPositionSize
    /\ call.action \in {"open_long", "close_short", "open_short", "close_long"}

\* C25 (as stated): _execute_trade calls place_order only when confidence is
\* at least 0.6, size is at most max_position_size and the action is one of
\* the four known ones; in every other case it returns an error result with
\* executed = False, places no order, uploads no log and leaves trade_count
\* unchanged.
C25_SingleAgentGate ==
    fenyr.last.outcome # "none" =>
        /\ fenyr.last.placed => GateConditions(fenyr.last)
        /\ ~GateConditions(fenyr.last) =>
              /\ fenyr.last.outcome = "error"
              /\ ~fenyr.last.placed
              /\ ~fenyr.last.logged
              /\ ~fenyr.last.counted

\* C26 (as stated): conversation_history never holds more than 20 messages,
\* the tool-call loop of analyze_and_trade included.
C26_HistoryBounded == fenyr.history <= HistoryLimit

(* ----------------------- claims on the session ------------------------ *)

\* the place_order calls of the session so far
SessionOrders == loop.placed + PlacedInRun

\* C30: a run of run_team_analysis calls place_order at most once, and over a
\* session of repeated cycles (continuous or HFT, failing cycles included) the
\* place_order calls never outnumber the cycles started.
C30_OrdersWithinCycles ==
    /\ PlacedInRun <= 1
    /\ SessionOrders <= loop.cycle

\* a session in which every cycle started has placed its order although one
\* of them failed after placing it
C30_Witness ==
    /\ loop.cycle >= 2
    /\ loop.raised >= 1
    /\ SessionOrders = loop.cycle
====
